---- MODULE Spec2Model ----
(***************************************************************************)
(* The AI Course Builder pipeline of mizelconsulting.                      *)
(*                                                                         *)
(*   POST /api/course-builder/create   (create/route.ts)                   *)
(*     executeCourseCreation: queryPineconeContent -> generateEnhancedCourse*)
(*     -> createCourseInTutorLMS, streaming progress events to the client  *)
(*   course-builder-helpers            (unnamed/part_005)                  *)
(*     createCourseInTutorLMS walks the course tree and issues the create  *)
(*     requests course -> topic -> lesson -> quiz -> question              *)
(*                                                                         *)
(* One run of the pipeline is one behaviour.  The inputs of the run (the   *)
(* tree the model returns, the generateFeaturedImage flag, the LMS         *)
(* configuration) are chosen in Init; the outcome of every upstream call   *)
(* is chosen by the action that issues the call.                           *)
(***************************************************************************)
EXTENDS Integers, Sequences, FiniteSets, TLC

\* ---------------------------------------------------------------- bounds
\* The largest course tree considered, counted in nodes below the course
\* (topics, lessons, quizzes and questions).
MaxTreeSize == 4

\* ------------------------------------------------------- JavaScript values
\* The values an extracted ID can take: undefined, a number, or the object
\* {id: n}.
Undef == [t |-> "undefined", v |-> 0]
Num(n) == [t |-> "number", v |-> n]
Obj(n) == [t |-> "object", v |-> n]

\* JavaScript truthiness of such a value.
Truthy(x) == x.t = "object" \/ (x.t = "number" /\ x.v # 0)

\* a || b
Or(a, b) == IF Truthy(a) THEN a ELSE b

\* x?.id : the id property of an object, undefined for anything else.
IdOf(x) == IF x.t = "object" THEN Num(x.v) ELSE Undef

\* The JSON body of a create response carrying id n, in each of the shapes
\* the LMS was seen to answer with, and the body carrying no id at all.
ResponseShapes == {"data_id", "data", "id", "none"}

Body(shape, n) ==
  CASE shape = "data_id" -> [data |-> Obj(n), id |-> Undef]
    [] shape = "data"    -> [data |-> Num(n), id |-> Undef]
    [] shape = "id"      -> [data |-> Undef,  id |-> Num(n)]
    [] OTHER             -> [data |-> Undef,  id |-> Undef]

\* const courseId = courseResult.data || courseResult.id
ExtractCourseId(body) == Or(body.data, body.id)

\* const topicId = topicResult.data?.id || topicResult.data || topicResult.id
\* (the same expression extracts lessonId and quizId)
ExtractId(body) == Or(Or(IdOf(body.data), body.data), body.id)

\* What a fetch() of a create endpoint can do: reject (network error), answer
\* with a non-2xx status, or answer 2xx with a body of one of the shapes.
FetchOutcomes ==
  {[kind |-> "throw", shape |-> "none"], [kind |-> "notok", shape |-> "none"]}
    \cup {[kind |-> "ok", shape |-> s] : s \in ResponseShapes}

\* The ID the LMS assigns to the node it creates: distinct per node.
LmsId(kind, t, i) ==
  CASE kind = "course"   -> 1000
    [] kind = "topic"    -> 100 * t
    [] kind = "lesson"   -> 100 * t + i
    [] kind = "quiz"     -> 100 * t + 50
    [] OTHER             -> 100 * t + 50 + i

\* ------------------------------------------------------------ course tree
\* A topic of the synthesized tree: its number of lessons, whether it has a
\* quiz and the number of questions of that quiz.  The model may return any
\* tree: topics without lessons, quizzes without questions, no topic at all.
TopicSize(tp) == 1 + tp.lessons + (IF tp.quiz THEN 1 + tp.questions ELSE 0)

Topics(b) ==
  {tp \in [lessons : 0..b, quiz : BOOLEAN, questions : 0..b] :
     /\ TopicSize(tp) <= b
     /\ ~tp.quiz => tp.questions = 0}

RECURSIVE TreesWithin(_)
TreesWithin(b) ==
  {<<>>} \cup UNION {{<<tp>> \o rest : rest \in TreesWithin(b - TopicSize(tp))} :
                       tp \in Topics(b)}

Trees == TreesWithin(MaxTreeSize)

RECURSIVE SumLessons(_, _)
SumLessons(tr, n) == IF n = 0 THEN 0 ELSE tr[n].lessons + SumLessons(tr, n - 1)

\* statistics of createCourseInTutorLMS's result
Statistics(tr) ==
  [totalTopics  |-> Len(tr),
   totalLessons |-> SumLessons(tr, Len(tr)),
   totalQuizzes |-> Cardinality({t \in 1..Len(tr) : tr[t].quiz})]

VARIABLES
  tree,          \* generateResult.courseStructure.topics
  genImages,     \* courseData.generateFeaturedImage
  configOk,      \* TUTOR_BASE_URL, TUTOR_API_KEY and TUTOR_API_SECRET all set
  pc,            \* position of executeCourseCreation
  events,        \* the events enqueued on the stream, in order
  closed,        \* controller.close() has been called
  closeCalls,    \* number of controller.close() calls
  calls,         \* number of invocations of each stage
  stageFailed,   \* the stage whose result had success = false, or "none"
  ppc,           \* position of createCourseInTutorLMS
  ti, li, qi,    \* loop positions: topic, lesson, question
  courseId, topicId, lessonId, quizId,   \* the locals of the same names
  requests,      \* LMS create requests issued, each with the parent ID sent
  outcomes,      \* what happened to each request
  images,        \* outcome of the latest image stage, of the course and of a lesson
  tutorResult,   \* the value createCourseInTutorLMS returned
  createdCourses, \* the records of created-courses.json
  cancelled,     \* the client has closed its connection (the stream is cancelled)
  attempts,      \* controller.enqueue calls made after the cancellation
  run,           \* number of earlier pipeline runs of this server
  saves,         \* the requests POST /api/course-builder/get-created-courses
  thread,        \* the save request running on the JavaScript thread, 0 if none
  clock,         \* new Date() as a counter
  probe          \* the state of the unit examined apart from the pipeline: a
                 \* function's argument and result, the answer of GET, the
                 \* AI-update stream

vars == <<tree, genImages, configOk, pc, events, closed, closeCalls, calls, stageFailed,
          ppc, ti, li, qi, courseId, topicId, lessonId, quizId, requests,
          outcomes, images, tutorResult, createdCourses, cancelled, attempts,
          run, saves, thread, clock, probe>>

\* What the pipeline never touches: the record log and its writers, the
\* client's connection, the function probes.
logVars == <<createdCourses, saves, thread, clock>>
auxVars == <<logVars, cancelled, attempts, run, probe>>

inputVars == <<tree, genImages, configOk>>
streamVars == <<events, closed, closeCalls>>
publishVars == <<ppc, ti, li, qi, courseId, topicId, lessonId, quizId,
                 requests, outcomes, images, tutorResult>>

NoResult == [success |-> FALSE, returned |-> FALSE, courseId |-> Undef,
             statistics |-> Statistics(<<>>)]

\* ------------------------------------------------------------ record log
\* The save requests considered, the course IDs and the payload versions
\* they carry.
MaxSaves == 2
MaxCourseId == 2
MaxVersion == 2

Handlers == 1..MaxSaves

\* The course object of a save request.  title, description, permalink and
\* statistics are those of version v of the course; status may be absent.
CoursePayload(id, v, status) ==
  [id |-> id, title |-> v, description |-> v, status |-> status,
   permalink |-> v, statistics |-> v]

CoursePayloads ==
  {CoursePayload(id, v, st) :
     id \in 1..MaxCourseId, v \in 1..MaxVersion, st \in {"", "published"}}

NoCourse == CoursePayload(0, 0, "")

\* A save request that has not arrived yet.
IdleSave == [pc |-> "idle", course |-> NoCourse, local |-> <<>>]

\* No save request has arrived and the record log is empty.
LogIdle ==
  /\ createdCourses = <<>>
  /\ saves = [h \in Handlers |-> IdleSave]
  /\ thread = 0
  /\ clock = 0

NoProbe == [fn |-> "none"]

Init ==
  /\ tree \in Trees
  /\ genImages \in BOOLEAN
  /\ configOk \in BOOLEAN
  /\ pc = "idle"
  /\ events = <<>>
  /\ closed = FALSE
  /\ closeCalls = 0
  /\ calls = [retrieve |-> 0, synthesize |-> 0, publish |-> 0]
  /\ stageFailed = "none"
  /\ ppc = "notcalled"
  /\ ti = 0 /\ li = 0 /\ qi = 0
  /\ courseId = Undef /\ topicId = Undef /\ lessonId = Undef /\ quizId = Undef
  /\ requests = {}
  /\ outcomes = {}
  /\ images = [course |-> "none", lesson |-> "none"]
  /\ tutorResult = NoResult
  /\ LogIdle
  /\ cancelled = FALSE
  /\ attempts = 0
  /\ run = 0
  /\ probe = NoProbe

\* The ID the LMS assigns in the current run: every create makes a new node,
\* with an ID no earlier run was given.
FreshId(kind, t, i) == 10000 * run + LmsId(kind, t, i)

\* The run in which the LMS assigned an ID.
RunOf(id) == id.v \div 10000

\* ------------------------------------------------------- progress stream
Event(type, step, progress) == [type |-> type, step |-> step, progress |-> progress]

\* sendProgress(controller, step, progress, message)
sendProgress(evs, step, progress) == Append(evs, Event("progress", step, progress))

\* Catch as it would be without the controller.close() of line 157.
CatchWithoutClose(evs) ==
  /\ events' = Append(evs, Event("error", "error", 0))
  /\ UNCHANGED <<closed, closeCalls>>
  /\ pc' = "done"

\* The catch block of executeCourseCreation: enqueue the error event after
\* the events evs sent so far, close the stream.
Catch(evs) ==
  /\ events' = Append(evs, Event("error", "error", 0))
  /\ closed' = TRUE
  /\ closeCalls' = closeCalls + 1
  /\ pc' = "done"

\* POST: the stream's start() enqueues the initial status event and calls
\* executeCourseCreation, which runs up to its first await: the enqueue of
\* the first progress event.
POST ==
  /\ pc = "idle"
  /\ events' = sendProgress(Append(events, Event("status", "initializing", 0)),
                            "querying_pinecone", 10)
  /\ pc' = "querying"
  /\ UNCHANGED <<inputVars, closed, closeCalls, calls, stageFailed, publishVars,
                 auxVars>>

\* Step 1: queryPineconeContent; every failure of the embedding or the vector
\* search is caught inside it and reported as success = false, on which
\* executeCourseCreation throws.
QueryContent ==
  /\ pc = "querying" /\ ~cancelled
  /\ calls' = [calls EXCEPT !.retrieve = @ + 1]
  /\ \E success \in BOOLEAN :
       IF ~success
         THEN /\ stageFailed' = "retrieve"
              /\ Catch(events)
         ELSE /\ events' = sendProgress(events, "content_found", 20)
              /\ pc' = "generating"
              /\ UNCHANGED <<closed, closeCalls, stageFailed>>
  /\ UNCHANGED <<inputVars, publishVars, auxVars>>

\* Step 2: generateEnhancedCourse; a missing key, an unparsable reply, a
\* reply without course or topics and any thrown error all return
\* success = false, on which executeCourseCreation throws.
SynthesisOutcomes == {"ok", "missing_key", "parse_error", "invalid_structure", "thrown"}

\* GenerateCourse as it would be without the throw of line 88: the failed
\* result is noted and the run goes on to publish.
GenerateCourseIgnoringFailure ==
  /\ pc = "generating" /\ ~cancelled
  /\ calls' = [calls EXCEPT !.synthesize = @ + 1]
  /\ \E o \in SynthesisOutcomes :
       /\ stageFailed' = IF o # "ok" THEN "synthesize" ELSE stageFailed
       /\ events' = sendProgress(sendProgress(sendProgress(events,
                        "generating_content", 30), "content_generated", 50),
                        "creating_course", 60)
       /\ pc' = "publishing"
       /\ ppc' = "course"
       /\ UNCHANGED <<closed, closeCalls>>
  /\ UNCHANGED <<inputVars, ti, li, qi, courseId, topicId, lessonId, quizId,
                 requests, outcomes, images, tutorResult, auxVars>>

GenerateCourse ==
  /\ pc = "generating" /\ ~cancelled
  /\ calls' = [calls EXCEPT !.synthesize = @ + 1]
  /\ \E o \in SynthesisOutcomes :
       IF o # "ok"
         THEN /\ stageFailed' = "synthesize"
              /\ Catch(sendProgress(events, "generating_content", 30))
              /\ UNCHANGED ppc
         ELSE /\ events' = sendProgress(sendProgress(sendProgress(events,
                              "generating_content", 30), "content_generated", 50),
                              "creating_course", 60)
              /\ pc' = "publishing"
              /\ ppc' = "course"
              /\ UNCHANGED <<closed, closeCalls, stageFailed>>
  /\ UNCHANGED <<inputVars, ti, li, qi, courseId, topicId, lessonId, quizId,
                 requests, outcomes, images, tutorResult, auxVars>>

\* ------------------------------------------- createCourseInTutorLMS
\* A create request as the LMS receives it: the node it is for and the
\* parent ID its payload carries (topic_course_id, topic_id, quiz_id).
Request(kind, t, i, parent) == [kind |-> kind, topic |-> t, idx |-> i, parent |-> parent]

\* What became of a create request: "created" (2xx, ID extracted),
\* "created_no_id" (2xx, no ID in the body), "rejected" (non-2xx), "threw".
Outcome(kind, t, i, result) == [kind |-> kind, topic |-> t, idx |-> i, result |-> result]

ResultOf(o, id) ==
  CASE o.kind = "throw" -> "threw"
    [] o.kind = "notok" -> "rejected"
    [] OTHER -> IF Truthy(id) THEN "created" ELSE "created_no_id"

\* Positions of the loops over topics, lessons and questions.
Pos(p, t, l, q) == [ppc |-> p, ti |-> t, li |-> l, qi |-> q]

\* for (const topic of courseStructure.topics)
GotoTopic(t) == IF t > Len(tree) THEN Pos("return", t, 0, 0) ELSE Pos("topic", t, 0, 0)

\* if (topic.quiz)
AfterLessons(t) == IF tree[t].quiz THEN Pos("quiz", t, 0, 0) ELSE GotoTopic(t + 1)

\* for (const lesson of topic.lessons)
GotoLesson(t, l) ==
  IF l > tree[t].lessons THEN AfterLessons(t) ELSE Pos("lesson", t, l, 0)

\* for (const question of topic.quiz.questions)
GotoQuestion(t, q) ==
  IF q > tree[t].questions THEN GotoTopic(t + 1) ELSE Pos("question", t, 0, q)

Goto(pos) == /\ ppc' = pos.ppc /\ ti' = pos.ti /\ li' = pos.li /\ qi' = pos.qi

\* The outer catch of createCourseInTutorLMS.
PublishFailed ==
  [success |-> FALSE, returned |-> TRUE, courseId |-> Undef,
   statistics |-> Statistics(<<>>)]

\* The return statement at the end of the try block.
PublishSucceeded(id) ==
  [success |-> TRUE, returned |-> TRUE, courseId |-> id,
   statistics |-> Statistics(tree)]

\* The earlier run created a course in the LMS.
HasPublished ==
  \E o \in outcomes : o.kind = "course" /\ o.result \in {"created", "created_no_id"}

Throw == /\ tutorResult' = PublishFailed
         /\ Goto(Pos("returned", ti, li, qi))

orchVars == <<pc, events, closed, closeCalls, stageFailed>>

\* CreateCourse as it would be without the configuration check of lines
\* 364-366: the course create request is issued with whatever config holds.
CreateCourseUnchecked ==
  /\ pc = "publishing" /\ ppc = "course"
  /\ calls' = [calls EXCEPT !.publish = @ + 1]
  /\ \E o \in FetchOutcomes :
              LET id == ExtractCourseId(Body(o.shape, FreshId("course", 0, 0))) IN
              /\ requests' = requests \cup {Request("course", 0, 0, Undef)}
              /\ IF o.kind # "ok"
                   THEN /\ outcomes' = outcomes \cup
                             {Outcome("course", 0, 0, ResultOf(o, Undef))}
                        /\ Throw
                        /\ UNCHANGED courseId
                   ELSE /\ outcomes' = outcomes \cup
                             {Outcome("course", 0, 0, ResultOf(o, id))}
                        /\ courseId' = id
                        /\ tutorResult' = tutorResult
                        /\ IF genImages = TRUE
                             THEN Goto(Pos("courseImage", 0, 0, 0))
                             ELSE Goto(GotoTopic(1))
  /\ UNCHANGED <<inputVars, orchVars, topicId, lessonId, quizId, images,
                 auxVars>>

\* Step 1 of publish: the configuration check and the course create request.
CreateCourse ==
  /\ pc = "publishing" /\ ppc = "course"
  /\ calls' = [calls EXCEPT !.publish = @ + 1]
  /\ IF ~configOk
       THEN /\ Throw
            /\ UNCHANGED <<courseId, requests, outcomes>>
       ELSE \E o \in FetchOutcomes :
              LET id == ExtractCourseId(Body(o.shape, FreshId("course", 0, 0))) IN
              /\ requests' = requests \cup {Request("course", 0, 0, Undef)}
              /\ IF o.kind # "ok"
                   THEN /\ outcomes' = outcomes \cup
                             {Outcome("course", 0, 0, ResultOf(o, Undef))}
                        /\ Throw
                        /\ UNCHANGED courseId
                   ELSE /\ outcomes' = outcomes \cup
                             {Outcome("course", 0, 0, ResultOf(o, id))}
                        /\ courseId' = id
                        /\ tutorResult' = tutorResult
                        /\ IF genImages = TRUE
                             THEN Goto(Pos("courseImage", 0, 0, 0))
                             ELSE Goto(GotoTopic(1))
  /\ UNCHANGED <<inputVars, orchVars, topicId, lessonId, quizId, images,
                 auxVars>>

\* The image stage: generateFeaturedImage and uploadImageToWordPress catch
\* their own errors and return success = false; the request that attaches
\* the thumbnail is a bare fetch.
ImageOutcomes ==
  {"generation_failed", "upload_failed", "no_media_id", "attached",
   "attach_rejected", "attach_threw"}

ImageStage(target, o, next) ==
  /\ images' = [images EXCEPT ![target] = o]
  /\ IF o = "attach_threw"
       THEN Throw
       ELSE /\ Goto(next)
            /\ tutorResult' = tutorResult

\* Step 1.5: the course featured image.
CourseImage ==
  /\ pc = "publishing" /\ ppc = "courseImage"
  /\ \E o \in ImageOutcomes : ImageStage("course", o, GotoTopic(1))
  /\ UNCHANGED <<inputVars, orchVars, calls, courseId, topicId, lessonId, quizId,
                 requests, outcomes, auxVars>>

\* CreateTopic as it would be with the topic requests started together
\* (Promise.all over the topics) and awaited one by one.
CreateTopicsTogether ==
  /\ pc = "publishing" /\ ppc = "topic"
  /\ \E o \in FetchOutcomes :
       LET id == ExtractId(Body(o.shape, FreshId("topic", ti, 0))) IN
       /\ requests' = requests \cup
            {Request("topic", u, 0, courseId) : u \in ti..Len(tree)}
       /\ outcomes' = outcomes \cup {Outcome("topic", ti, 0, ResultOf(o, id))}
       /\ CASE o.kind = "throw" -> Throw /\ UNCHANGED topicId
            [] o.kind = "notok" \/ (o.kind = "ok" /\ ~Truthy(id)) ->
                 /\ Goto(GotoTopic(ti + 1))
                 /\ UNCHANGED <<topicId, tutorResult>>
            [] OTHER ->
                 /\ topicId' = id
                 /\ Goto(GotoLesson(ti, 1))
                 /\ tutorResult' = tutorResult
  /\ UNCHANGED <<inputVars, orchVars, calls, courseId, lessonId, quizId, images,
                 auxVars>>

\* Step 2: the topic create request.
CreateTopic ==
  /\ pc = "publishing" /\ ppc = "topic"
  /\ \E o \in FetchOutcomes :
       LET id == ExtractId(Body(o.shape, FreshId("topic", ti, 0))) IN
       /\ requests' = requests \cup {Request("topic", ti, 0, courseId)}
       /\ outcomes' = outcomes \cup {Outcome("topic", ti, 0, ResultOf(o, id))}
       /\ CASE o.kind = "throw" -> Throw /\ UNCHANGED topicId
            [] o.kind = "notok" \/ (o.kind = "ok" /\ ~Truthy(id)) ->
                 /\ Goto(GotoTopic(ti + 1))
                 /\ UNCHANGED <<topicId, tutorResult>>
            [] OTHER ->
                 /\ topicId' = id
                 /\ Goto(GotoLesson(ti, 1))
                 /\ tutorResult' = tutorResult
  /\ UNCHANGED <<inputVars, orchVars, calls, courseId, lessonId, quizId, images,
                 auxVars>>

\* The lesson create request.
CreateLesson ==
  /\ pc = "publishing" /\ ppc = "lesson"
  /\ \E o \in FetchOutcomes :
       LET id == ExtractId(Body(o.shape, FreshId("lesson", ti, li))) IN
       /\ requests' = requests \cup {Request("lesson", ti, li, topicId)}
       /\ outcomes' = outcomes \cup {Outcome("lesson", ti, li, ResultOf(o, id))}
       /\ CASE o.kind = "throw" -> Throw /\ UNCHANGED lessonId
            [] o.kind = "notok" \/ (o.kind = "ok" /\ ~Truthy(id)) ->
                 /\ Goto(GotoLesson(ti, li + 1))
                 /\ UNCHANGED <<lessonId, tutorResult>>
            [] OTHER ->
                 /\ lessonId' = id
                 /\ Goto(Pos("lessonImage", ti, li, 0))
                 /\ tutorResult' = tutorResult
  /\ UNCHANGED <<inputVars, orchVars, calls, courseId, topicId, quizId, images,
                 auxVars>>

\* The lesson featured image, generated for every created lesson.
LessonImage ==
  /\ pc = "publishing" /\ ppc = "lessonImage"
  /\ \E o \in ImageOutcomes : ImageStage("lesson", o, GotoLesson(ti, li + 1))
  /\ UNCHANGED <<inputVars, orchVars, calls, courseId, topicId, lessonId, quizId,
                 requests, outcomes, auxVars>>

\* The quiz create request.
CreateQuiz ==
  /\ pc = "publishing" /\ ppc = "quiz"
  /\ \E o \in FetchOutcomes :
       LET id == ExtractId(Body(o.shape, FreshId("quiz", ti, 0))) IN
       /\ requests' = requests \cup {Request("quiz", ti, 0, topicId)}
       /\ outcomes' = outcomes \cup {Outcome("quiz", ti, 0, ResultOf(o, id))}
       /\ CASE o.kind = "throw" -> Throw /\ UNCHANGED quizId
            [] o.kind = "notok" \/ (o.kind = "ok" /\ ~Truthy(id)) ->
                 /\ Goto(GotoTopic(ti + 1))
                 /\ UNCHANGED <<quizId, tutorResult>>
            [] OTHER ->
                 /\ quizId' = id
                 /\ Goto(GotoQuestion(ti, 1))
                 /\ tutorResult' = tutorResult
  /\ UNCHANGED <<inputVars, orchVars, calls, courseId, topicId, lessonId, images,
                 auxVars>>

\* The question create request; its response body is only logged.
QuestionOutcomes == {"throw", "notok", "ok"}

CreateQuestion ==
  /\ pc = "publishing" /\ ppc = "question"
  /\ \E k \in QuestionOutcomes :
       /\ requests' = requests \cup {Request("question", ti, qi, quizId)}
       /\ outcomes' = outcomes \cup
            {Outcome("question", ti, qi,
                     CASE k = "throw" -> "threw" [] k = "notok" -> "rejected"
                       [] OTHER -> "created")}
       /\ IF k = "throw"
            THEN Throw
            ELSE /\ Goto(GotoQuestion(ti, qi + 1))
                 /\ tutorResult' = tutorResult
  /\ UNCHANGED <<inputVars, orchVars, calls, courseId, topicId, lessonId, quizId,
                 images, auxVars>>

\* The return at the end of the try block.
PublishReturn ==
  /\ pc = "publishing" /\ ppc = "return"
  /\ tutorResult' = PublishSucceeded(courseId)
  /\ Goto(Pos("returned", ti, li, qi))
  /\ UNCHANGED <<inputVars, orchVars, calls, courseId, topicId, lessonId, quizId,
                 requests, outcomes, images, auxVars>>

\* Complete as it would be with the close of line 143 moved before one more
\* progress event.
CompleteThenProgress(evs) ==
  /\ events' = sendProgress(Append(evs, Event("complete", "completed", 100)),
                            "finalizing", 90)
  /\ closed' = TRUE
  /\ closeCalls' = closeCalls + 1
  /\ pc' = "done"

\* Steps 3 to 6 of executeCourseCreation after createCourseInTutorLMS
\* returned: throw on success = false, else the progress events 80 and 90,
\* the complete event and close.
Complete(evs) ==
  /\ events' = Append(evs, Event("complete", "completed", 100))
  /\ closed' = TRUE
  /\ closeCalls' = closeCalls + 1
  /\ pc' = "done"

Finalize ==
  /\ pc = "publishing" /\ ppc = "returned" /\ ~cancelled
  /\ IF ~tutorResult.success
       THEN /\ stageFailed' = "publish"
            /\ Catch(events)
       ELSE /\ Complete(sendProgress(sendProgress(events, "course_created", 80),
                                     "finalizing", 90))
            /\ UNCHANGED stageFailed
  /\ UNCHANGED <<inputVars, calls, publishVars, auxVars>>

Next ==
  \/ POST
  \/ QueryContent
  \/ GenerateCourse
  \/ CreateCourse
  \/ CourseImage
  \/ CreateTopic
  \/ CreateLesson
  \/ LessonImage
  \/ CreateQuiz
  \/ CreateQuestion
  \/ PublishReturn
  \/ Finalize

Spec == Init /\ [][Next]_vars

\* ------------------------------------------------------------- re-run
\* The runs of the pipeline considered on one tree.
MaxRuns == 2

\* Rerun as it would be if publish kept the course of the earlier run: the
\* new run goes straight to the topics, under the course ID it remembers.
RerunResuming ==
  /\ pc = "done" /\ HasPublished /\ run + 1 < MaxRuns
  /\ run' = run + 1
  /\ pc' = "publishing" /\ events' = <<>> /\ closed' = FALSE /\ closeCalls' = 0
  /\ calls' = [retrieve |-> 1, synthesize |-> 1, publish |-> 1]
  /\ stageFailed' = "none"
  /\ Goto(GotoTopic(1))
  /\ topicId' = Undef /\ lessonId' = Undef /\ quizId' = Undef
  /\ requests' = {} /\ outcomes' = {}
  /\ images' = [course |-> "none", lesson |-> "none"]
  /\ tutorResult' = NoResult
  /\ UNCHANGED <<inputVars, courseId, logVars, cancelled, attempts, probe>>

\* The client posts the course again after a run that created a course, and
\* the synthesizer returns the same tree: a new stream, a new call of
\* executeCourseCreation and of createCourseInTutorLMS, whose variables are
\* all local to the call.
Rerun ==
  /\ pc = "done" /\ HasPublished /\ run + 1 < MaxRuns
  /\ run' = run + 1
  /\ pc' = "idle" /\ events' = <<>> /\ closed' = FALSE /\ closeCalls' = 0
  /\ calls' = [retrieve |-> 0, synthesize |-> 0, publish |-> 0]
  /\ stageFailed' = "none"
  /\ ppc' = "notcalled" /\ ti' = 0 /\ li' = 0 /\ qi' = 0
  /\ courseId' = Undef /\ topicId' = Undef /\ lessonId' = Undef /\ quizId' = Undef
  /\ requests' = {} /\ outcomes' = {}
  /\ images' = [course |-> "none", lesson |-> "none"]
  /\ tutorResult' = NoResult
  /\ UNCHANGED <<inputVars, logVars, cancelled, attempts, probe>>

RerunNext ==
  \/ Next
  \/ Rerun

RerunSpec == Init /\ [][RerunNext]_vars

\* ---------------------------------------------------- client disconnect
\* The client closes its connection: the response stream is cancelled.  The
\* stream is built with start() only; nothing tells executeCourseCreation.
ClientCancel ==
  /\ pc \in {"querying", "generating", "publishing"} /\ ~cancelled
  /\ cancelled' = TRUE
  /\ UNCHANGED <<inputVars, orchVars, calls, publishVars, logVars, attempts, run, probe>>

\* The orchestrator reaches its next controller.enqueue after the
\* cancellation.  enqueue on a cancelled stream throws: out of the try block
\* from sendProgress (or the stage's failure is thrown), and again from the
\* enqueue of the catch block, which ends executeCourseCreation before its
\* controller.close().  n counts the enqueue calls made.
EnqueueAfterCancel ==
  /\ cancelled
  /\ \/ /\ pc = "querying"
        /\ calls' = [calls EXCEPT !.retrieve = @ + 1]
        /\ \E success \in BOOLEAN : attempts' = attempts + (IF success THEN 2 ELSE 1)
     \/ /\ pc = "generating"
        /\ attempts' = attempts + 2
        /\ UNCHANGED calls
     \/ /\ pc = "publishing" /\ ppc = "returned"
        /\ attempts' = attempts + (IF tutorResult.success THEN 2 ELSE 1)
        /\ UNCHANGED calls
  /\ pc' = "crashed"
  /\ UNCHANGED <<inputVars, events, closed, closeCalls, stageFailed, publishVars,
                 logVars, cancelled, run, probe>>

CancelNext ==
  \/ Next
  \/ ClientCancel
  \/ EnqueueAfterCancel

CancelSpec == Init /\ [][CancelNext]_vars

\* -------------------- POST /api/course-builder/get-created-courses
pipelineVars == <<inputVars, orchVars, calls, publishVars, cancelled, attempts, run>>

\* The pipeline at rest, as the save requests find it.
PipelineIdle ==
  /\ tree = <<>> /\ genImages = FALSE /\ configOk = TRUE
  /\ pc = "idle" /\ events = <<>> /\ closed = FALSE /\ closeCalls = 0
  /\ calls = [retrieve |-> 0, synthesize |-> 0, publish |-> 0]
  /\ stageFailed = "none"
  /\ ppc = "notcalled" /\ ti = 0 /\ li = 0 /\ qi = 0
  /\ courseId = Undef /\ topicId = Undef /\ lessonId = Undef /\ quizId = Undef
  /\ requests = {} /\ outcomes = {}
  /\ images = [course |-> "none", lesson |-> "none"]
  /\ tutorResult = NoResult
  /\ cancelled = FALSE /\ attempts = 0 /\ run = 0

\* createdCourses.findIndex(c => c.id === course.id), 0 for -1
RECURSIVE FindIndex(_, _, _)
FindIndex(list, id, i) ==
  IF i > Len(list) THEN 0
  ELSE IF list[i].id = id THEN i ELSE FindIndex(list, id, i + 1)

\* course.status || 'draft'
StatusOrDraft(status) == IF status = "" THEN "draft" ELSE status

\* "Add or update the course": the list after the update of the record with
\* the course's id, or after the push of a new record created at time now.
AddOrUpdate(list, course, now) ==
  LET existingIndex == FindIndex(list, course.id, 1) IN
  IF existingIndex > 0
    THEN [list EXCEPT ![existingIndex] =
            [@ EXCEPT !.title = course.title,
                      !.description = course.description,
                      !.status = StatusOrDraft(course.status),
                      !.permalink = course.permalink,
                      !.statistics = course.statistics]]
    ELSE Append(list, [id |-> course.id, title |-> course.title,
                       description |-> course.description, createdAt |-> now,
                       status |-> StatusOrDraft(course.status),
                       permalink |-> course.permalink,
                       statistics |-> course.statistics])

\* A handler that awaited every file operation (fs.promises) would give up
\* the thread after each of its steps.
YieldsAfterEveryStep(p) == TRUE

\* The positions at which the handler gives up the JavaScript thread: after
\* `await request.json()` and at its return.  readFileSync and writeFileSync
\* do not yield.
Yields(p) == p \in {"parsed", "done"}

\* Node runs one handler at a time, switching only where a handler yields.
MayRun(h) == thread \in {0, h}
Run(h, p) == thread' = IF Yields(p) THEN 0 ELSE h

\* const { course } = await request.json()
SaveReceive(h) ==
  /\ MayRun(h) /\ saves[h].pc = "idle"
  /\ \E c \in CoursePayloads :
       saves' = [saves EXCEPT ![h] = [pc |-> "parsed", course |-> c, local |-> <<>>]]
  /\ Run(h, "parsed")
  /\ UNCHANGED <<createdCourses, clock, pipelineVars, probe>>

\* What "Read existing courses" leaves in the local createdCourses: the list
\* of the file, or [] when the file is not there, and also when readFileSync
\* or JSON.parse throws on a file that is there (the inner catch).
ReadResults(file) == {file, <<>>}

\* "Read existing courses": readFileSync and JSON.parse into createdCourses.
SaveRead(h) ==
  /\ MayRun(h) /\ saves[h].pc = "parsed"
  /\ \E list \in ReadResults(createdCourses) :
       saves' = [saves EXCEPT ![h].pc = "read", ![h].local = list]
  /\ Run(h, "read")
  /\ UNCHANGED <<createdCourses, clock, pipelineVars, probe>>

\* "Add or update the course", "Write back to file", return.
SaveWrite(h) ==
  /\ MayRun(h) /\ saves[h].pc = "read"
  /\ clock' = clock + 1
  /\ createdCourses' = AddOrUpdate(saves[h].local, saves[h].course, clock')
  /\ saves' = [saves EXCEPT ![h].pc = "done",
                            ![h].local = createdCourses']
  /\ Run(h, "done")
  /\ UNCHANGED <<pipelineVars, probe>>

\* The position of the newest record of a non-empty list (the first of
\* them, as the sort is stable).
Newest(list) ==
  CHOOSE i \in 1..Len(list) :
    /\ \A j \in 1..Len(list) : list[j].createdAt <= list[i].createdAt
    /\ \A j \in 1..(i - 1) : list[j].createdAt < list[i].createdAt

Without(list, i) == SubSeq(list, 1, i - 1) \o SubSeq(list, i + 1, Len(list))

\* createdCourses.sort((a, b) => new Date(b.createdAt) - new Date(a.createdAt))
RECURSIVE NewestFirst(_)
NewestFirst(list) ==
  IF list = <<>> THEN <<>>
  ELSE <<list[Newest(list)]>> \o NewestFirst(Without(list, Newest(list)))

\* GET: read the file as POST does, sort the local list, answer with it.  The
\* handler has no await; probe holds its answer.
ListCourses ==
  /\ thread = 0
  /\ \E list \in ReadResults(createdCourses) :
       probe' = [fn |-> "GET", courses |-> NewestFirst(list), total |-> Len(list)]
  /\ probe' # probe
  /\ UNCHANGED <<pipelineVars, logVars>>

LogInit == PipelineIdle /\ LogIdle /\ probe = NoProbe

LogNext ==
  \/ ListCourses
  \/ \E h \in Handlers : SaveReceive(h)
  \/ \E h \in Handlers : SaveRead(h)
  \/ \E h \in Handlers : SaveWrite(h)

LogSpec == LogInit /\ [][LogNext]_vars

\* ------------------------------------------------------ question mapping
\* The questions of a quiz as the tree carries them.  The tree is the JSON the
\* model returned: a question may lack any of its fields, carry an index that
\* names no option, an empty option text, or a boolean as its answer.
MaxOptions == 2

OptionTexts == {"", "A", "B"}
QuestionTypes == {"", "single_choice", "multiple_choice", "true_false",
                  "open_ended", "short_answer"}

Bool(b) == [t |-> "boolean", v |-> IF b THEN 1 ELSE 0]

\* A property holding an array, and the property that is not there.
Array(s) == [def |-> TRUE, v |-> s]
NoArray == [def |-> FALSE, v |-> <<>>]

SeqsUpTo(S, n) == UNION {[1..k -> S] : k \in 0..n}

Questions ==
  [type           : QuestionTypes,
   options        : {NoArray} \cup {Array(s) : s \in SeqsUpTo(OptionTexts, MaxOptions)},
   correctAnswer  : {Undef, Bool(TRUE), Bool(FALSE)} \cup {Num(n) : n \in 0..MaxOptions},
   correctAnswers : {NoArray} \cup {Array(s) : s \in SeqsUpTo(0..MaxOptions, MaxOptions)}]

\* A string value, and undefined, as an element of an array or as the value
\* of a property.
Str(s) == [def |-> TRUE, s |-> s]
NoStr == [def |-> FALSE, s |-> ""]

\* question.options?.[i] for a number i: the text at the zero-based index i,
\* undefined if there are no options or no option at i.
OptionAt(q, i) ==
  IF q.options.def /\ i + 1 \in 1..Len(q.options.v)
    THEN Str(q.options.v[i + 1]) ELSE NoStr

\* question.options?.[question.correctAnswer]: a property lookup, which finds
\* an option only under a number (true, false and undefined are no index).
OptionAtAnswer(q) ==
  IF q.correctAnswer.t = "number" THEN OptionAt(q, q.correctAnswer.v) ELSE NoStr

\* a || b on strings: the empty string and undefined are falsy.
OrStr(a, b) == IF a.def /\ a.s # "" THEN a ELSE b

\* const mappedType = question.type || 'single_choice'
MappedType(q) == IF q.type = "" THEN "single_choice" ELSE q.type

\* The correct_answer property of questionData: not set, a string (or
\* undefined) or an array of strings (or undefined).
NoAnswer == [t |-> "absent", s |-> NoStr, a |-> <<>>]
StrAnswer(x) == [t |-> "string", s |-> x, a |-> <<>>]
ArrayAnswer(xs) == [t |-> "array", s |-> NoStr, a |-> xs]

\* questionData.options = question.options || []  (set for every type)
OptionsOfEveryType(q) == Array(q.options.v)

\* questionData.options: set for single_choice and multiple_choice only.
PayloadOptions(q) ==
  IF MappedType(q) \in {"single_choice", "multiple_choice"}
    THEN Array(q.options.v) ELSE NoArray

\* questionData.correct_answer
PayloadCorrectAnswer(q) ==
  CASE MappedType(q) = "single_choice" ->
         StrAnswer(OrStr(OptionAtAnswer(q), OptionAt(q, 0)))
    [] MappedType(q) = "multiple_choice" ->
         ArrayAnswer(IF q.correctAnswers.def
                       THEN [k \in 1..Len(q.correctAnswers.v) |->
                               OptionAt(q, q.correctAnswers.v[k])]
                       ELSE <<>>)
    [] MappedType(q) = "true_false" ->
         StrAnswer(Str(IF q.correctAnswer = Num(0) THEN "true" ELSE "false"))
    [] OTHER -> NoAnswer

\* The type-specific part of the payload sent to quiz-questions.
QuestionData(q) ==
  [question_type  |-> MappedType(q),
   options        |-> PayloadOptions(q),
   correct_answer |-> PayloadCorrectAnswer(q)]

NoQuestionData == [question_type |-> "", options |-> NoArray, correct_answer |-> NoAnswer]

\* The mapping applied to one question of a quiz.
MapQuestion ==
  /\ probe.fn = "question" /\ ~probe.mapped
  /\ probe' = [probe EXCEPT !.mapped = TRUE, !.questionData = QuestionData(probe.question)]
  /\ UNCHANGED <<pipelineVars, logVars>>

QuestionInit ==
  /\ PipelineIdle /\ LogIdle
  /\ \E q \in Questions :
       probe = [fn |-> "question", question |-> q, mapped |-> FALSE,
                questionData |-> NoQuestionData]

QuestionNext == MapQuestion

QuestionSpec == QuestionInit /\ [][QuestionNext]_vars

\* ------------------------------------------- generateEnhancedCourse
\* The lessonsPerTopic of the course specification the client's form posts
\* unless the user changes it.
lessonsPerTopic == 3

\* The tags the prompt asks for, and the longest tag list considered.
RequiredTags == 10
MaxTags == 11
MaxRequested == 2

\* courseData.numberOfTopics || 6, courseData.lessonsPerTopic || 4
OrDefault(n, default) == IF n = 0 THEN default ELSE n

\* courseStructure.course.tags?.length || 0, the tags being absent for -1
TotalTags(tags) == IF tags < 0 THEN 0 ELSE tags

\* The end of generateEnhancedCourse, once the reply parsed into a structure
\* with a course and topics: the statistics, the console warnings and the
\* result.  spec is the courseData of the request (0 for an absent number),
\* tr the topics and tags the number of tags of the reply.
ValidateStructure(spec, tr, tags) ==
  LET requestedTopics == OrDefault(spec.numberOfTopics, 6)
      requestedLessons == requestedTopics * OrDefault(spec.lessonsPerTopic, 4)
      statistics == [totalTopics |-> Len(tr),
                     totalLessons |-> SumLessons(tr, Len(tr)),
                     totalTags |-> TotalTags(tags)]
  IN [success |-> TRUE,
      statistics |-> statistics,
      warnings |-> {w \in {"topics", "lessons"} :
                      \/ w = "topics" /\ statistics.totalTopics < requestedTopics
                      \/ w = "lessons" /\ statistics.totalLessons < requestedLessons}]

NoValidation == [success |-> FALSE, statistics |-> [totalTopics |-> 0,
                 totalLessons |-> 0, totalTags |-> 0], warnings |-> {}]

Synthesize ==
  /\ probe.fn = "synthesis" /\ ~probe.returned
  /\ probe' = [probe EXCEPT !.returned = TRUE,
                            !.result = ValidateStructure(probe.courseData,
                                                         probe.topics, probe.tags)]
  /\ UNCHANGED <<pipelineVars, logVars>>

SynthesisInit ==
  /\ PipelineIdle /\ LogIdle
  /\ \E spec \in [numberOfTopics : 0..MaxRequested, lessonsPerTopic : 0..MaxRequested],
        tr \in Trees, tags \in -1..MaxTags :
       probe = [fn |-> "synthesis", courseData |-> spec, topics |-> tr,
                tags |-> tags, returned |-> FALSE, result |-> NoValidation]

SynthesisNext == Synthesize

SynthesisSpec == SynthesisInit /\ [][SynthesisNext]_vars

\* ------------------------------------------------- AI-update stream
\* POST of unnamed/part_003: the stream's start() enqueues a status event, spawns
\* the ingestion script and registers four callbacks on the child process.
\* MaxChunks bounds the data callbacks of one child.
MaxChunks == 3

\* parseProgressFromOutput: null (0 here) or the progress of the step the
\* chunk names; three of its fourteen steps are kept.
StepProgress == {0, 5, 50, 95}

\* controller.enqueue(...) in a callback: on a closed stream it throws, which
\* ends the callback.
Enqueue(s, type, progress) ==
  IF s.closed
    THEN [s EXCEPT !.thrown = @ + 1]
    ELSE [s EXCEPT !.events = Append(@, [type |-> type, progress |-> progress])]

\* controller.enqueue(...); controller.close()
EnqueueAndClose(s, type, progress) ==
  IF s.closed
    THEN [s EXCEPT !.thrown = @ + 1]
    ELSE [Enqueue(s, type, progress) EXCEPT !.closed = TRUE, !.closeCalls = @ + 1]

\* pythonProcess.stdout.on('data', ...)
OnStdout ==
  /\ probe.fn = "ai-update" /\ probe.child = "running"
  /\ probe.chunks < MaxChunks
  /\ \E info \in StepProgress :
       LET progress == IF info = 0 THEN probe.progress ELSE info IN
       probe' = [Enqueue(probe, "progress", progress) EXCEPT
                   !.progress = progress, !.chunks = @ + 1]
  /\ UNCHANGED <<pipelineVars, logVars>>

\* pythonProcess.stderr.on('data', ...)
OnStderr ==
  /\ probe.fn = "ai-update" /\ probe.child = "running"
  /\ probe.chunks < MaxChunks
  /\ probe' = [Enqueue(probe, "error", probe.progress) EXCEPT !.chunks = @ + 1]
  /\ UNCHANGED <<pipelineVars, logVars>>

\* pythonProcess.on('error', ...): the spawn failed (no interpreter at
\* ./venv/bin/python, no permission).  Node emits 'error' and, once the
\* stdio streams are closed, 'close' as well.
OnError ==
  /\ probe.fn = "ai-update" /\ probe.child = "running"
  /\ probe.chunks = 0
  /\ probe' = [EnqueueAndClose(probe, "error", 0) EXCEPT !.child = "failed"]
  /\ UNCHANGED <<pipelineVars, logVars>>

\* pythonProcess.on('close', ...)
OnClose ==
  /\ probe.fn = "ai-update" /\ probe.child \in {"running", "failed"}
  /\ probe' = [EnqueueAndClose(probe, "complete", 100) EXCEPT !.child = "closed"]
  /\ UNCHANGED <<pipelineVars, logVars>>

UpdateInit ==
  /\ PipelineIdle /\ LogIdle
  /\ probe = [fn |-> "ai-update", child |-> "running",
              events |-> <<[type |-> "status", progress |-> 0]>>,
              closed |-> FALSE, closeCalls |-> 0, thrown |-> 0,
              progress |-> 0, chunks |-> 0]

UpdateNext ==
  \/ OnStdout
  \/ OnStderr
  \/ OnError
  \/ OnClose

UpdateSpec == UpdateInit /\ [][UpdateNext]_vars

\* ------------------------------------------------ course-builder client
\* handleCreateCourse of the course-builder page, reading the stream of one
\* run of the pipeline.  MaxProgressEvents bounds the progress events the
\* server sends before the stream ends.
MaxProgressEvents == 3

\* The events of a stream after the initial status event: progress events,
\* then a complete event, an error event, or nothing when the server dies
\* before its terminal event.
ProgressEvents == {[type |-> "progress", progress |-> p] : p \in {10, 60}}

Streams ==
  {body \o end :
     body \in SeqsUpTo(ProgressEvents, MaxProgressEvents),
     end \in {<<>>, <<[type |-> "complete", progress |-> 100]>>,
              <<[type |-> "error", progress |-> 0]>>}}

\* The click on "create": the flags set before the fetch.
StartCreate ==
  /\ probe.fn = "client" /\ probe.at = "idle" /\ ~probe.creating
  /\ probe' = [probe EXCEPT !.at = "fetching", !.creating = TRUE,
                            !.progress = 0, !.showProgressModal = TRUE,
                            !.logs = 0, !.createdCourse = FALSE]
  /\ UNCHANGED <<pipelineVars, logVars>>

\* The catch block: a log line, creating back to false.
ClientCatch(s) == [s EXCEPT !.at = "returned", !.logs = @ + 1, !.creating = FALSE]

\* await fetch(...): it rejects, answers with a non-2xx status or without a
\* body (all thrown into the catch block), or answers with the stream.
FetchReturns ==
  /\ probe.fn = "client" /\ probe.at = "fetching"
  /\ \E ok \in BOOLEAN :
       probe' = IF ok THEN [probe EXCEPT !.at = "reading"] ELSE ClientCatch(probe)
  /\ UNCHANGED <<pipelineVars, logVars>>

\* One turn of the read loop on an event of the stream.
OnEvent(s, e) ==
  CASE e.type \in {"status", "progress"} ->
         [s EXCEPT !.progress = e.progress, !.logs = @ + 1]
    [] e.type = "error" ->
         [s EXCEPT !.logs = @ + 1]
    [] OTHER ->
         [s EXCEPT !.progress = 100, !.logs = @ + 1, !.createdCourse = TRUE,
                   !.at = "timer"]

\* await reader.read(): the next event, the end of the stream (break, after
\* which the function returns), or a rejection (the catch block).
ReadStream ==
  /\ probe.fn = "client" /\ probe.at = "reading"
  /\ \/ /\ probe.stream # <<>>
        /\ probe' = [OnEvent(probe, Head(probe.stream)) EXCEPT !.stream = Tail(@)]
     \/ /\ probe.stream = <<>>
        /\ probe' = [probe EXCEPT !.at = "returned"]
     \/ probe' = ClientCatch(probe)
  /\ UNCHANGED <<pipelineVars, logVars>>

\* The timeout set on the complete event, three seconds later.
CloseModal ==
  /\ probe.fn = "client" /\ probe.at = "timer"
  /\ probe' = [probe EXCEPT !.at = "returned", !.showProgressModal = FALSE,
                            !.creating = FALSE]
  /\ UNCHANGED <<pipelineVars, logVars>>

ClientInit ==
  /\ PipelineIdle /\ LogIdle
  /\ \E stream \in Streams :
       probe = [fn |-> "client", at |-> "idle", creating |-> FALSE,
                progress |-> 0, showProgressModal |-> FALSE, logs |-> 0,
                createdCourse |-> FALSE,
                stream |-> <<[type |-> "status", progress |-> 0]>> \o stream]

ClientNext ==
  \/ StartCreate
  \/ FetchReturns
  \/ ReadStream
  \/ CloseModal

\* The browser runs every resumed handler and every due timer.
ClientSpec == ClientInit /\ [][ClientNext]_vars /\ WF_vars(ClientNext)

\* ------------------------------------------------------------ properties
Last(evs) == evs[Len(evs)]

TerminalEvents(evs) == {i \in 1..Len(evs) : evs[i].type \in {"complete", "error"}}

ErrorEvents(evs) == {i \in 1..Len(evs) : evs[i].type = "error"}

HasOutcome(kind, t, i, results) ==
  \E o \in outcomes : o.kind = kind /\ o.topic = t /\ o.idx = i /\ o.result \in results

Failures == {"rejected", "created_no_id", "threw"}

CourseCreated == HasOutcome("course", 0, 0, {"created"})

\* C1: every run of executeCourseCreation, whatever the stages return, ends
\* with exactly one terminal event (complete or error) as its last event and
\* with the stream closed; the stream is closed only after a terminal event,
\* and a run that has not ended can always take its next step.
C1_OneTerminalEventThenClose ==
  /\ Cardinality(TerminalEvents(events)) <= 1
  /\ closed => /\ events # <<>>
               /\ TerminalEvents(events) = {Len(events)}
  /\ pc = "done" => /\ closed
                    /\ closeCalls = 1
                    /\ TerminalEvents(events) = {Len(events)}
  /\ pc # "done" => ENABLED Next

\* A run that ended with the error event after publish returned a failure.
C1_Witness ==
  /\ pc = "done" /\ stageFailed = "publish"
  /\ Last(events).type = "error" /\ closed

\* C2: within one run the progress values of successive events (status,
\* progress, error and complete alike) are non-decreasing.
C2_ProgressNonDecreasing ==
  \A i, j \in 1..Len(events) : i < j => events[i].progress <= events[j].progress

\* C3: the result of createCourseInTutorLMS is success if and only if the
\* course was created: success whenever the course create succeeded with a
\* course ID, whatever failed afterwards, and no success without a course.
C3_SuccessIffCourseCreated ==
  tutorResult.returned =>
    /\ CourseCreated => tutorResult.success
    /\ ~HasOutcome("course", 0, 0, {"created", "created_no_id"}) => ~tutorResult.success

\* C4: when a topic's create request fails, no lesson, quiz or question
\* request is issued for that topic, every later topic is still attempted
\* and the publish result is not a failure while the course was created.
C4_TopicFailureContained ==
  \A t \in 1..Len(tree) :
    HasOutcome("topic", t, 0, Failures) =>
      /\ \A r \in requests : r.topic = t => r.kind = "topic"
      /\ tutorResult.returned =>
           /\ \A u \in (t + 1)..Len(tree) :
                \E r \in requests : r.kind = "topic" /\ r.topic = u
           /\ CourseCreated => tutorResult.success

\* C5: a retrieval failure (queryPineconeContent returning success = false)
\* is not fatal: the run still invokes the synthesizer and does not end with
\* an error event because of it.
C5_RetrievalFailureNotFatal ==
  (pc = "done" /\ stageFailed = "retrieve") =>
    /\ calls.synthesize = 1
    /\ Last(events).type # "error"

\* C6: when every quiz create request is rejected while the course, topic
\* and lesson requests succeed, the publish result is success with
\* statistics.totalQuizzes = 0 and totalLessons the lessons of the tree.
C6_StatisticsCountCreatedQuizzes ==
  ( /\ tutorResult.returned
    /\ CourseCreated
    /\ \A t \in 1..Len(tree) :
         /\ HasOutcome("topic", t, 0, {"created"})
         /\ \A l \in 1..tree[t].lessons : HasOutcome("lesson", t, l, {"created"})
         /\ tree[t].quiz => HasOutcome("quiz", t, 0, {"rejected"})
    /\ \A g \in DOMAIN images : images[g] # "attach_threw" ) =>
    /\ tutorResult.success
    /\ tutorResult.statistics.totalQuizzes = 0
    /\ tutorResult.statistics.totalLessons = SumLessons(tree, Len(tree))

\* C7: every child create request is issued after its parent's create
\* returned an ID and carries that ID: a topic the course ID, a lesson or
\* quiz its topic's ID, a question its quiz's ID; never a missing ID.
C7_ParentBeforeChild ==
  \A r \in requests :
    /\ r.kind = "topic" =>
         /\ CourseCreated
         /\ r.parent = Num(LmsId("course", 0, 0))
    /\ r.kind \in {"lesson", "quiz"} =>
         /\ HasOutcome("topic", r.topic, 0, {"created"})
         /\ r.parent = Num(LmsId("topic", r.topic, 0))
    /\ r.kind = "question" =>
         /\ HasOutcome("quiz", r.topic, 0, {"created"})
         /\ r.parent = Num(LmsId("quiz", r.topic, 0))

\* C8: a failure at any step of the image stage (generation, download,
\* upload, or the request attaching the thumbnail, a thrown network error
\* included) never aborts publish: with the course created and no create
\* request thrown, the result is success.
C8_ImageFailureNeverAborts ==
  ( /\ tutorResult.returned
    /\ CourseCreated
    /\ \E g \in DOMAIN images : images[g] \notin {"none", "attached"}
    /\ \A o \in outcomes : o.result # "threw" ) =>
    tutorResult.success

\* C9: in every run that emits the complete event, a CreatedCourseRecord of
\* the created course is in the record log before the event is emitted.
C9_RecordPersistedBeforeComplete ==
  (events # <<>> /\ Last(events).type = "complete") =>
    \E i \in 1..Len(createdCourses) : createdCourses[i].id = tutorResult.courseId

\* C10: each stage is invoked at most once in a run, and once a stage has
\* reported a failure no later stage is invoked: the run has ended with a
\* single error event.
C10_NoRetryNoLaterStage ==
  /\ calls.retrieve <= 1 /\ calls.synthesize <= 1 /\ calls.publish <= 1
  /\ stageFailed = "retrieve" => calls.synthesize = 0 /\ calls.publish = 0
  /\ stageFailed = "synthesize" => calls.publish = 0
  /\ stageFailed # "none" =>
       /\ pc = "done"
       /\ ErrorEvents(events) = {Len(events)}
       /\ TerminalEvents(events) = {Len(events)}

\* A run ended by the failure of the synthesizer.
C10_Witness ==
  /\ stageFailed = "synthesize" /\ pc = "done"
  /\ calls = [retrieve |-> 1, synthesize |-> 1, publish |-> 0]


\* The IDs of the records of a list.
Ids(list) == {list[i].id : i \in 1..Len(list)}

\* C11: concurrent writers of the record log are serialized: whatever the
\* interleaving of the save requests, once they have completed the log
\* holds a record for the course of each of them; no update is lost.
C11_NoLostUpdate ==
  \A h \in Handlers :
    saves[h].pc = "done" => saves[h].course.id \in Ids(createdCourses)

\* Two save requests with distinct course IDs have completed, the later
\* arrival having written first.
C11_Witness ==
  /\ \A h \in Handlers : saves[h].pc = "done"
  /\ saves[1].course.id # saves[2].course.id
  /\ Len(createdCourses) = 2
  /\ createdCourses[1].id = saves[2].course.id

\* The question a probe mapped and the payload it produced.
Mapped(type) ==
  /\ probe.fn = "question" /\ probe.mapped
  /\ probe.question.type = type

\* The option of the question at its correct index, if the question has one.
HasCorrectOption(q) ==
  /\ q.correctAnswer.t = "number"
  /\ OptionAt(q, q.correctAnswer.v).def

AllCorrectOptions(q) ==
  /\ q.correctAnswers.def
  /\ \A k \in 1..Len(q.correctAnswers.v) : OptionAt(q, q.correctAnswers.v[k]).def

\* C12: the payload of a single_choice question carries the option texts and
\* the text of the option at the correct index as correct_answer; the payload
\* of a multiple_choice question carries the texts of the options at the
\* correct indices, as an array.
C12_CorrectAnswerIsOptionText ==
  /\ Mapped("single_choice") /\ HasCorrectOption(probe.question) =>
       /\ probe.questionData.options = probe.question.options
       /\ probe.questionData.correct_answer =
            StrAnswer(OptionAt(probe.question, probe.question.correctAnswer.v))
  /\ Mapped("multiple_choice") /\ AllCorrectOptions(probe.question) =>
       /\ probe.questionData.options = probe.question.options
       /\ probe.questionData.correct_answer =
            ArrayAnswer([k \in 1..Len(probe.question.correctAnswers.v) |->
                          OptionAt(probe.question, probe.question.correctAnswers.v[k])])

\* C13: the payload of a true_false question carries the literal "true" when
\* the question's answer is true and "false" when it is false, whether the
\* tree carries the answer as a boolean or as the index of the option
\* (0 = True, 1 = False); it carries no other value.
C13_TrueFalseLiteral ==
  Mapped("true_false") =>
    /\ probe.question.correctAnswer \in {Bool(TRUE), Num(0)} =>
         probe.questionData.correct_answer = StrAnswer(Str("true"))
    /\ probe.question.correctAnswer \in {Bool(FALSE), Num(1)} =>
         probe.questionData.correct_answer = StrAnswer(Str("false"))
    /\ probe.questionData.correct_answer \in
         {StrAnswer(Str("true")), StrAnswer(Str("false"))}

\* C14: the payload of an open_ended question has neither an options nor a
\* correct_answer property.
C14_OpenEndedOmitsAnswer ==
  Mapped("open_ended") =>
    /\ ~probe.questionData.options.def
    /\ probe.questionData.correct_answer.t = "absent"

\* An open_ended question that came with options and an answer was mapped.
C14_Witness ==
  /\ Mapped("open_ended")
  /\ probe.question.options.def /\ Len(probe.question.options.v) > 0
  /\ probe.question.correctAnswer # Undef
  /\ probe.questionData.question_type = "open_ended"

\* C15: whichever of the shapes {data: {id: n}}, {data: n} and {id: n} a
\* create response has, the ID extracted from it is the number n, for the
\* course, the topic, the lesson and the quiz alike.
C15_SameIdForEveryShape ==
  /\ CourseCreated => courseId = Num(LmsId("course", 0, 0))
  /\ \A t \in 1..Len(tree) :
       /\ (ti = t /\ HasOutcome("topic", t, 0, {"created"})) =>
            topicId = Num(LmsId("topic", t, 0))
       /\ (ti = t /\ HasOutcome("quiz", t, 0, {"created"})) =>
            quizId = Num(LmsId("quiz", t, 0))
       /\ \A l \in 1..tree[t].lessons :
            (ti = t /\ li = l /\ HasOutcome("lesson", t, l, {"created"})) =>
              lessonId = Num(LmsId("lesson", t, l))

C17_NoEmissionAfterCancel ==
  cancelled => attempts = 0

LessonRequests(t) == {req \in requests : req.kind = "lesson" /\ req.topic = t}

\* C19: for every topic that publish created, the number of lesson create
\* requests attempted for the topic is the lessonsPerTopic of the course
\* specification.
C19_LessonsAttemptedPerTopic ==
  \A t \in 1..Len(tree) :
    (pc = "done" /\ HasOutcome("topic", t, 0, {"created"})) =>
      Cardinality(LessonRequests(t)) = lessonsPerTopic

\* C20: the tree the synthesizer returns has exactly ten tags, or the
\* synthesizer reports a warning about the number of tags.
C20_TenTagsOrWarning ==
  (probe.fn = "synthesis" /\ probe.returned /\ probe.result.success) =>
    \/ probe.tags = RequiredTags
    \/ "tags" \in probe.result.warnings

\* C21: a failure of the synthesizer (missing model credentials, a reply
\* that does not parse into a structure with a course and topics, a thrown
\* error) is fatal: the run ends with the error event and publish is never
\* called, so that no request of any kind reaches the LMS.
C21_SynthesisFailureFatal ==
  stageFailed = "synthesize" =>
    /\ pc = "done" /\ closed
    /\ Last(events).type = "error"
    /\ ppc = "notcalled" /\ calls.publish = 0
    /\ requests = {} /\ outcomes = {}
    /\ images = [course |-> "none", lesson |-> "none"]

\* The synthesizer failed on a run whose LMS configuration was complete and
\* whose retrieval had succeeded.
C21_Witness ==
  /\ stageFailed = "synthesize" /\ configOk
  /\ Len(events) = 5
  /\ events[3].step = "content_found"
  /\ events[4].step = "generating_content"
  /\ Last(events).type = "error"

\* C22: with a required LMS credential absent, publish fails before any
\* request to the LMS, is called once only, and the run ends with the error
\* event.
C22_MissingConfigFatal ==
  (~configOk /\ calls.publish > 0) =>
    /\ calls.publish = 1
    /\ requests = {} /\ outcomes = {}
    /\ images = [course |-> "none", lesson |-> "none"]
    /\ tutorResult = PublishFailed
    /\ ppc = "returned"
    /\ pc \in {"publishing", "done"}
    /\ pc = "done" => /\ stageFailed = "publish"
                      /\ Last(events).type = "error"
                      /\ closed

\* A run that reached publish without configuration and ended.
C22_Witness ==
  /\ ~configOk /\ calls.publish = 1 /\ pc = "done"
  /\ stageFailed = "publish" /\ Len(tree) > 0

\* The step in which save request h adds or updates its course and writes
\* the file.
SavedBy(h) == saves[h].pc = "read" /\ saves'[h].pc = "done"

\* The record a save of course c makes of the record old with the same ID.
Updated(old, c) ==
  [id |-> old.id, createdAt |-> old.createdAt, title |-> c.title,
   description |-> c.description, status |-> StatusOrDraft(c.status),
   permalink |-> c.permalink, statistics |-> c.statistics]

\* C23: a save whose course ID is in the log replaces title, description,
\* status, permalink and statistics of that record, keeps its id and
\* createdAt and leaves the number of records unchanged; a save with a new
\* ID appends exactly one record; no two records of the log share an ID.
C23_AppendOrUpdateById ==
  [][\A h \in Handlers :
       SavedBy(h) =>
         LET c == saves[h].course
             k == FindIndex(createdCourses, c.id, 1)
         IN /\ k > 0 => /\ Len(createdCourses') = Len(createdCourses)
                        /\ createdCourses'[k] = Updated(createdCourses[k], c)
            /\ k = 0 => /\ Len(createdCourses') = Len(createdCourses) + 1
                        /\ createdCourses'[Len(createdCourses')].id = c.id
            /\ Cardinality(Ids(createdCourses')) = Len(createdCourses')]_vars

\* C30: a save of the course with ID x leaves every record with another ID
\* as it was, a read of the list leaves the log as it was, and a record
\* that is in the log stays in it.
C30_OtherRecordsKept ==
  [][\A i \in 1..Len(createdCourses) :
       \E j \in 1..Len(createdCourses') :
         /\ createdCourses'[j].id = createdCourses[i].id
         /\ (\A h \in Handlers :
               SavedBy(h) => saves[h].course.id # createdCourses[i].id)
              => createdCourses'[j] = createdCourses[i]]_vars

\* The create request of node (kind, t, i) was issued.
Attempted(kind, t, i) ==
  \E r \in requests : r.kind = kind /\ r.topic = t /\ r.idx = i

\* The leaf failures of kind fs never stop the siblings of the failed leaf.
LeafFailuresContained(fs) ==
  tutorResult.returned =>
    \A t \in 1..Len(tree) :
      /\ \A l \in 1..tree[t].lessons :
           HasOutcome("lesson", t, l, fs) =>
             /\ \A m \in (l + 1)..tree[t].lessons : Attempted("lesson", t, m)
             /\ tree[t].quiz => Attempted("quiz", t, 0)
      /\ \A q \in 1..tree[t].questions :
           HasOutcome("question", t, q, fs) =>
             \A p \in (q + 1)..tree[t].questions : Attempted("question", t, p)

\* C24: when a lesson create request fails, every later lesson of the topic
\* and the topic's quiz are still attempted; when a question create request
\* fails, every later question of the quiz is still attempted.
C24_LeafFailureContained == LeafFailuresContained(Failures)

\* The quiz failures of kind fs leave the quiz without question requests and
\* the publish going on with the next topic.
QuizFailuresSkipped(fs) ==
  \A t \in 1..Len(tree) :
    HasOutcome("quiz", t, 0, fs) =>
      /\ \A q \in 1..tree[t].questions : ~Attempted("question", t, q)
      /\ (tutorResult.returned /\ t < Len(tree)) => Attempted("topic", t + 1, 0)

\* C25: when the create request of a topic's quiz fails or yields no quiz
\* ID, no question request is issued for that quiz and publish continues
\* with the next topic.
C25_QuizFailureSkipsQuestions == QuizFailuresSkipped(Failures)

\* The create requests issued and not yet answered.
InFlight ==
  {r \in requests :
     ~\E o \in outcomes : o.kind = r.kind /\ o.topic = r.topic /\ o.idx = r.idx}

\* C26: publish handles the topics one at a time, in the order of the tree:
\* a request is issued only when every earlier request has been answered
\* and none of them belongs to a later topic, and one request at a time.
C26_TopicsInOrder ==
  [][/\ Cardinality(requests' \ requests) <= 1
     /\ \A r \in requests' \ requests :
          /\ InFlight = {}
          /\ \A earlier \in requests : earlier.topic <= r.topic]_vars

\* A run that issued the requests of two topics, each with a lesson.
C26_Witness ==
  /\ pc = "done" /\ Len(tree) = 2
  /\ Attempted("lesson", 1, 1) /\ Attempted("topic", 2, 0)
  /\ Attempted("lesson", 2, 1)

\* C27: with generateFeaturedImage false, publish runs the image stage
\* (generation, upload, thumbnail) neither for the course nor for a lesson.
C27_NoImageWithoutFlag ==
  ~genImages => images = [course |-> "none", lesson |-> "none"]

\* C28: whatever the order of the child's stdout, stderr, 'error' and
\* 'close' callbacks, the controller of the AI-update stream is closed at
\* most once and no callback enqueues on it after the close.
C28_UpdateStreamClosedOnce ==
  probe.fn = "ai-update" =>
    /\ probe.closeCalls <= 1
    /\ probe.thrown = 0

\* The client has seen its stream end: at the complete event, or at the end
\* of the stream after an error event or after no terminal event.
StreamEnded ==
  /\ probe.fn = "client"
  /\ probe.at \in {"timer", "returned"}

\* C29: once the stream of a run has ended, with a complete event, with an
\* error event or without a terminal event, the creating flag of the client
\* eventually returns to false.
C29_CreatingEventuallyFalse ==
  StreamEnded ~> (probe.fn = "client" /\ ~probe.creating)

====
